---- MODULE Spec2Model ----
(***************************************************************************)
(* A model of ext/django2jinja/django2jinja.py: the Writer that walks a    *)
(* parsed Django template and emits Jinja syntax.                          *)
(*                                                                         *)
(* The output stream is the sequence `out` of the strings handed to        *)
(* Writer.write, one element per call; the error stream is the sequence    *)
(* `err` of the messages printed by Writer.warn.  Names that the code      *)
(* slices or rewrites character by character (variable names, block names, *)
(* text, reprs) are sequences of one-character strings and are joined to   *)
(* a string when written.                                                  *)
(***************************************************************************)
EXTENDS Integers, Sequences, FiniteSets, TLC

VARIABLES
    out,                    \* Writer.stream: the strings written, in order
    err,                    \* Writer.error_stream: the warnings, in order
    autoescape,             \* Writer.autoescape
    spaceless,              \* Writer.spaceless
    use_jinja_autoescape,   \* Writer.use_jinja_autoescape
    _loop_depth,             \* Writer._loop_depth
    _filters_warned,         \* Writer._filters_warned
    stack,                  \* the handlers that are inside a Writer.body call
    budget,                 \* how much input the caller may still supply
    last                    \* the operation performed by the last step

vars == <<out, err, autoescape, spaceless, use_jinja_autoescape, _loop_depth,
          _filters_warned, stack, budget, last>>

(***************************************************************************)
(* Bounds of the model.                                                    *)
(***************************************************************************)
MaxNodes == 3
MaxFilters == 3
MaxCalls == 3

(***************************************************************************)
(* Character sequences.                                                    *)
(***************************************************************************)
RECURSIVE Join(_)
Join(s) == IF s = <<>> THEN "" ELSE Head(s) \o Join(Tail(s))

StartsWith(s, p) == Len(s) >= Len(p) /\ SubSeq(s, 1, Len(p)) = p

\* s[n:]
SliceFrom(s, n) == SubSeq(s, n + 1, Len(s))

RECURSIVE Replace(_, _, _)
Replace(s, a, b) ==
    IF s = <<>> THEN <<>>
    ELSE <<IF Head(s) = a THEN b ELSE Head(s)>> \o Replace(Tail(s), a, b)

Whitespace == {" ", "\n", "\t"}

RECURSIVE LStrip(_)
LStrip(s) ==
    IF s # <<>> /\ Head(s) \in Whitespace THEN LStrip(Tail(s)) ELSE s

RECURSIVE RStrip(_)
RStrip(s) ==
    IF s # <<>> /\ s[Len(s)] \in Whitespace
    THEN RStrip(SubSeq(s, 1, Len(s) - 1)) ELSE s

(***************************************************************************)
(* jinja2.defaults, imported with * at the top of the file.                *)
(***************************************************************************)
BLOCK_START_STRING == "{%"
BLOCK_END_STRING == "%}"
VARIABLE_START_STRING == "{{"
VARIABLE_END_STRING == "}}"

\* the names of jinja2.defaults.DEFAULT_FILTERS that the model uses
DEFAULT_FILTERS == {"upper", "lower"}

(***************************************************************************)
(* The input alphabet: names, values, Variable nodes, filters.             *)
(***************************************************************************)
\* None where a name is expected, and None where a value is expected
None == "None"
PyNone == [t |-> "NoneType", s |-> <<>>]

n_forloop == <<"f", "o", "r", "l", "o", "o", "p">>
n_forloop_counter == n_forloop \o <<".", "c", "o", "u", "n", "t", "e", "r">>
n_forloops == n_forloop \o <<"s">>
n_item == <<"i", "t", "e", "m">>
n_fo == <<"f", "o">>
n_block_super == <<"b", "l", "o", "c", "k", ".", "s", "u", "p", "e", "r">>

VarNames == {n_forloop, n_forloop_counter, n_forloops, n_item, n_fo}

\* Python values that reach Writer.literal
PyUnicode(s) == [t |-> "unicode", s |-> s]

\* django.template.Variable: a literal, or else a name to look up
Var(name) == [type |-> "Variable", literal |-> PyNone, var |-> name]
Lit(value) == [type |-> "Variable", literal |-> value, var |-> <<>>]

\* the filter functions of the loaded libraries, by registered name; orphan_fn
\* is a function that no library registers
Libraries ==
    {<<"upper", "upper_fn">>, <<"lower", "lower_fn">>,
     <<"date", "date_fn">>, <<"slugify", "slugify_fn">>}

(***************************************************************************)
(* Writer: loop depth.                                                     *)
(***************************************************************************)
enter_loop == _loop_depth + 1

leave_loop_skipped == _loop_depth
leave_loop == _loop_depth - 1

in_loop == _loop_depth > 0

(***************************************************************************)
(* Writer: output primitives.  Each yields the strings it writes.          *)
(***************************************************************************)
post_open == IF spaceless THEN <<"- ">> ELSE <<" ">>

pre_close == IF spaceless THEN <<" -">> ELSE <<" ">>

start_variable == <<VARIABLE_START_STRING>> \o post_open

end_variable_ignores_native(always_safe) ==
    (IF ~always_safe /\ autoescape THEN <<"|e">> ELSE <<>>)
        \o pre_close \o <<VARIABLE_END_STRING>>
end_variable(always_safe) ==
    (IF ~always_safe /\ autoescape /\ ~use_jinja_autoescape
     THEN <<"|e">> ELSE <<>>)
        \o pre_close \o <<VARIABLE_END_STRING>>

start_block == <<BLOCK_START_STRING>> \o post_open

end_block == pre_close \o <<BLOCK_END_STRING>>

tag(name) == start_block \o <<name>> \o end_block

\* `a and b or c` binds as `(a and b) or c`
translate_variable_name(var) ==
    IF (in_loop /\ var = n_forloop) \/ StartsWith(var, n_forloop \o <<".">>)
    THEN SliceFrom(var, 3)
    ELSE var

variable(name) == <<Join(translate_variable_name(name))>>

\* repr() of a unicode string without characters that repr escapes
Repr(value) ==
    LET q == IF "'" \in {value.s[i] : i \in DOMAIN value.s} THEN "\"" ELSE "'"
    IN  <<"u", q>> \o value.s \o <<q>>

literal(value) ==
    LET r == Repr(value)
    IN  <<Join(IF Len(r) >= 2 /\ SubSeq(r, 1, 2) \in {<<"u", "\"">>, <<"u", "'">>}
               THEN SliceFrom(r, 1) ELSE r)>>

(***************************************************************************)
(* Writer.warn and Writer.get_filter_name.  A warning is modelled by its    *)
(* message; the '[file:line] ' that warn puts before the message of a node *)
(* that carries its source is left out.                                    *)
(***************************************************************************)
warn(message) == <<message>>

get_filter_name(filter) ==
    IF \E l \in Libraries : l[2] = filter
    THEN (CHOOSE l \in Libraries : l[2] = filter)[1]
    ELSE None

(***************************************************************************)
(* The node registry and Writer.node's lookup by exact type.               *)
(***************************************************************************)
\* _node_handlers after the module is loaded: <<node type, handler>>
node_handlers ==
    {<<"TextNode", "text_node">>,
     <<"Variable", "variable">>,
     <<"VariableNode", "variable_node">>,
     <<"FilterExpression", "filter_expression">>,
     <<"CommentNode", "comment_tag">>,
     <<"DebugNode", "comment_tag">>,
     <<"ForNode", "for_loop">>,
     <<"IfNode", "if_condition">>,
     <<"IfEqualNode", "if_equal">>,
     <<"BlockNode", "block">>,
     <<"ExtendsNode", "extends">>,
     <<"ConstantIncludeNode", "include">>,
     <<"IncludeNode", "include">>,
     <<"CycleNode", "cycle">>,
     <<"FilterNode", "filter">>,
     <<"AutoEscapeControlNode", "autoescape_control">>,
     <<"SpacelessNode", "spaceless">>,
     <<"TemplateTagNode", "template_tag">>,
     <<"URLNode", "url_tag">>,
     <<"WidthRatioNode", "width_ratio">>,
     <<"WithNode", "with_block">>,
     <<"RegroupNode", "regroup">>,
     <<"LoadNode", "warn_load">>}

\* the base classes of the node types that are subclasses of registered ones
BaseClasses == {<<"blog.ShoutTextNode", "TextNode">>}

IsInstance(n, cls) == n.type = cls \/ <<n.type, cls>> \in BaseClasses

handler_of_by_isinstance(n) ==
    IF \E h \in node_handlers : IsInstance(n, h[1])
    THEN (CHOOSE h \in node_handlers : IsInstance(n, h[1]))[2]
    ELSE None
handler_of(n) ==
    IF \E h \in node_handlers : h[1] = n.type
    THEN (CHOOSE h \in node_handlers : h[1] = n.type)[2]
    ELSE None

(***************************************************************************)
(* The part of the Writer that translating an expression reads and         *)
(* changes: the two streams and the set of filters warned about.           *)
(***************************************************************************)
Here == [out |-> out, err |-> err, warned |-> _filters_warned]

Write(w, strings) == [w EXCEPT !.out = @ \o strings]

Warn(w, message) == [w EXCEPT !.err = @ \o warn(message)]

initial_want_pipe_always(is_block) == TRUE
initial_want_pipe(is_block) == ~is_block

_filters_warned_add_nothing(warned, name) == warned
_filters_warned_add(warned, name) == warned \cup {name}

RECURSIVE node_expr(_, _)
RECURSIVE filters_loop(_, _, _)
RECURSIVE filter_args(_, _, _)

\* the body of the loop over the arguments of one filter
filter_args(w, args, idx) ==
    IF idx > Len(args) THEN w
    ELSE LET w1 == IF idx > 1 THEN Write(w, <<", ">>) ELSE w
             w2 == IF args[idx].is_var
                   THEN node_expr(w1, args[idx].value)
                   ELSE Write(w1, literal(args[idx].value))
         IN  filter_args(w2, args, idx + 1)

\* the body of the loop over the filters
filters_loop(w, fl, want_pipe) ==
    IF fl = <<>> THEN w
    ELSE
      LET name == get_filter_name(Head(fl).filter)
          args == Head(fl).args
      IN
      IF name = None
      THEN filters_loop(Warn(w, "Could not find filter " \o None),
                        Tail(fl), want_pipe)
      ELSE
        LET w1 == IF name \notin DEFAULT_FILTERS /\ name \notin w.warned
                  THEN Warn([w EXCEPT !.warned = _filters_warned_add(@, name)],
                            "Filter " \o name
                                \o " probably doesn't exist in Jinja")
                  ELSE w
            w2 == IF ~want_pipe THEN w1 ELSE Write(w1, <<"|">>)
            w3 == Write(w2, <<name>>)
            w4 == IF args # <<>>
                  THEN Write(filter_args(Write(w3, <<"(">>), args, 1), <<")">>)
                  ELSE w3
        IN  filters_loop(w4, Tail(fl), TRUE)

filters(w, fl, is_block) == filters_loop(w, fl, initial_want_pipe(is_block))

Untranslatable(rtype) == "Untranslatable node " \o rtype \o " found"

\* Writer.node on a node of an expression, with the handlers `variable` and
\* `filter_expression`
node_expr(w, n) ==
    CASE handler_of(n) = "variable" ->
            IF n.literal # PyNone
            THEN Write(w, literal(n.literal))
            ELSE Write(w, variable(n.var))
      [] handler_of(n) = "filter_expression" ->
            filters(node_expr(w, n.var), n.filters, FALSE)
      [] OTHER -> Warn(w, Untranslatable(n.type))

(***************************************************************************)
(* The state after Writer.__init__.                                        *)
(***************************************************************************)
NoOp == [op |-> "none"]

InitWriter(initial_autoescape, native) ==
    /\ out = <<>>
    /\ err = <<>>
    /\ autoescape = initial_autoescape
    /\ spaceless = FALSE
    /\ use_jinja_autoescape = native
    /\ _loop_depth = 0
    /\ _filters_warned = {}
    /\ stack = <<>>
    /\ last = NoOp

(***************************************************************************)
(* SpecFilters: a Writer with the default settings on which filters() is   *)
(* called any number of times.                                             *)
(***************************************************************************)
ArgsYItem ==
    <<[is_var |-> FALSE, value |-> PyUnicode(<<"Y">>)],
      [is_var |-> TRUE, value |-> Var(n_item)]>>

FilterItems ==
    {[filter |-> "upper_fn", args |-> <<>>],
     [filter |-> "date_fn", args |-> ArgsYItem],
     [filter |-> "slugify_fn", args |-> <<>>],
     [filter |-> "orphan_fn", args |-> <<>>]}

InitFilters == InitWriter(TRUE, FALSE) /\ budget = MaxFilters

CallFilters ==
    \E k \in 1..budget : \E fl \in [1..k -> FilterItems] :
      \E is_block \in BOOLEAN :
        LET w == filters(Here, fl, is_block)
        IN  /\ out' = w.out
            /\ err' = w.err
            /\ _filters_warned' = w.warned
            /\ budget' = budget - k
            /\ last' = [op |-> "filters", filters |-> fl,
                        is_block |-> is_block,
                        base |-> Len(out), errbase |-> Len(err)]
            /\ UNCHANGED <<autoescape, spaceless, use_jinja_autoescape,
                           _loop_depth, stack>>

NextFilters == CallFilters

SpecFilters == InitFilters /\ [][NextFilters]_vars

(***************************************************************************)
(* SpecWriter: a Writer constructed with any initial_autoescape and        *)
(* use_jinja_autoescape, on which enter_loop, leave_loop (after an         *)
(* enter_loop), variable and end_variable are called.                      *)
(***************************************************************************)
InitCalls ==
    /\ \E a \in BOOLEAN, n \in BOOLEAN : InitWriter(a, n)
    /\ budget = MaxCalls

CallEnterLoop ==
    /\ budget > 0
    /\ _loop_depth' = enter_loop
    /\ budget' = budget - 1
    /\ last' = [op |-> "enter_loop"]
    /\ UNCHANGED <<out, err, autoescape, spaceless, use_jinja_autoescape,
                   _filters_warned, stack>>

CallLeaveLoop ==
    /\ budget > 0
    /\ in_loop
    /\ _loop_depth' = leave_loop
    /\ budget' = budget - 1
    /\ last' = [op |-> "leave_loop"]
    /\ UNCHANGED <<out, err, autoescape, spaceless, use_jinja_autoescape,
                   _filters_warned, stack>>

CallVariable ==
    /\ budget > 0
    /\ \E name \in VarNames :
        /\ out' = out \o variable(name)
        /\ last' = [op |-> "variable", name |-> name]
    /\ budget' = budget - 1
    /\ UNCHANGED <<err, autoescape, spaceless, use_jinja_autoescape,
                   _loop_depth, _filters_warned, stack>>

CallEndVariable ==
    /\ budget > 0
    /\ \E always_safe \in BOOLEAN :
        /\ out' = out \o end_variable(always_safe)
        /\ last' = [op |-> "end_variable", always_safe |-> always_safe]
    /\ budget' = budget - 1
    /\ UNCHANGED <<err, autoescape, spaceless, use_jinja_autoescape,
                   _loop_depth, _filters_warned, stack>>

NextCalls ==
    \/ CallEnterLoop
    \/ CallLeaveLoop
    \/ CallVariable
    \/ CallEndVariable

SpecWriter == InitCalls /\ [][NextCalls]_vars

(***************************************************************************)
(* The nodes of the templates that are translated.  A node with children   *)
(* carries the lengths of its node lists; the children themselves are      *)
(* drawn when Writer.body reaches them.                                    *)
(***************************************************************************)
FE(v, fl) == [type |-> "FilterExpression", var |-> v, filters |-> fl]

t_hi == <<" ", "h", "i", " ">>
n_a == <<"a">>
n_b == <<"b">>
n_k == <<"k">>
n_items == <<"i", "t", "e", "m", "s">>
n_side_bar == <<"s", "i", "d", "e", "-", "b", "a", "r">>

DateFilter == [filter |-> "date_fn", args |-> ArgsYItem]
UpperFilter == [filter |-> "upper_fn", args |-> <<>>]

TextNodes == {[type |-> "TextNode", s |-> t_hi]}

\* nodes of types that have no handler: a subclass of TextNode and a custom tag
UnregisteredNodes ==
    {[type |-> "blog.ShoutTextNode", s |-> t_hi],
     [type |-> "blog.MarkdownNode"]}

VariableNodes ==
    {[type |-> "VariableNode", filter_expression |-> FE(Var(v), fl)] :
        <<v, fl>> \in {<<n_forloop_counter, <<DateFilter>> >>,
                       <<n_block_super, <<>> >>}}

CycleNodes ==
    {[type |-> "CycleNode", variable_name |-> vn,
      raw_cycle_vars |-> <<Var(n_a), Lit(PyUnicode(n_b)), Var(n_forloop)>>] :
        vn \in {None, "c"}}

ForNodes(k) ==
    {[type |-> "ForNode", loopvars |-> <<n_k, n_forloop>>,
      sequence |-> FE(Var(n_items), <<>>), is_reversed |-> r,
      nodelist_loop |-> k] : r \in {TRUE}}

\* IfNode.LinkTypes of django.template.defaulttags
LinkTypes == [and_ |-> 0, or_ |-> 1]

IfNodes(kt, kf) ==
    {[type |-> "IfNode", link_type |-> lt,
      bool_exprs |-> <<[ifnot |-> FALSE, expr |-> FE(Var(n_a), <<>>)],
                       [ifnot |-> TRUE, expr |-> FE(Var(n_b), <<>>)]>>,
      nodelist_true |-> kt, nodelist_false |-> kf] :
        lt \in {LinkTypes.and_, LinkTypes.or_}}

IfEqualNodes(kt, kf) ==
    {[type |-> "IfEqualNode", var1 |-> Var(n_a), var2 |-> Lit(PyUnicode(n_b)),
      nodelist_true |-> kt, nodelist_false |-> kf]}

\* a block that overrides another one: parent is <<>> for None
BlockNodes(k) ==
    {[type |-> "BlockNode", name |-> n_side_bar, nodelist |-> 0,
      parent |-> <<[type |-> "BlockNode", name |-> n_side_bar,
                    nodelist |-> k, parent |-> <<>>]>>]}

FilterNodes(k) ==
    {[type |-> "FilterNode",
      filter_expr |-> FE(Var(n_a), <<UpperFilter, DateFilter>>),
      nodelist |-> k]}

AutoEscapeControlNodes(k) ==
    {[type |-> "AutoEscapeControlNode", setting |-> b, nodelist |-> k] :
        b \in BOOLEAN}

SpacelessNodes(k) == {[type |-> "SpacelessNode", nodelist |-> k]}

(***************************************************************************)
(* Writer.body and Writer.node.  A frame of `stack` is a handler that is   *)
(* inside a Writer.body call: the node, the number of nodes of the list    *)
(* (n) and how many of them are still to come (left), the value it saved   *)
(* (original), and the context when Writer.node invoked it (entry).        *)
(***************************************************************************)
Top == stack[Len(stack)]

Context ==
    [depth |-> _loop_depth, autoescape |-> autoescape, spaceless |-> spaceless]

Frame(h, node, n, original) ==
    [h |-> h, node |-> node, n |-> n, left |-> n, original |-> original,
     else_done |-> FALSE, entry |-> Context]

\* Writer.body takes the next node of the list
Taken == [stack EXCEPT ![Len(stack)].left = @ - 1]

CanTake == stack # <<>> /\ Top.left > 0

AtEnd(h) == stack # <<>> /\ Top.h = h /\ Top.left = 0

Pop == SubSeq(stack, 1, Len(stack) - 1)

\* the position in its list of the node that is taken next
Index == Top.n - Top.left + 1

\* spaceless() replaces the first and the last node of its list by a stripped
\* TextNode when they are instances of TextNode
Stripped(n) ==
    IF Top.h = "spaceless"
    THEN LET first == IF Index = 1 /\ IsInstance(n, "TextNode")
                      THEN [type |-> "TextNode", s |-> LStrip(n.s)] ELSE n
         IN  IF Index = Top.n /\ IsInstance(first, "TextNode")
             THEN [type |-> "TextNode", s |-> RStrip(first.s)] ELSE first
    ELSE n

\* the step of a handler that runs to its end without calling Writer.body
Leaf(op, node, w) ==
    /\ out' = w.out
    /\ err' = w.err
    /\ _filters_warned' = w.warned
    /\ stack' = Taken
    /\ last' = [op |-> op, node |-> node, base |-> Len(out),
                errbase |-> Len(err)]
    /\ UNCHANGED <<autoescape, spaceless, use_jinja_autoescape, _loop_depth,
                   budget>>

\* the step of a handler up to its call of Writer.body on a list of k nodes
Enter(op, node, w, k, original) ==
    /\ out' = w.out
    /\ err' = w.err
    /\ _filters_warned' = w.warned
    /\ stack' = Append(Taken, Frame(op, node, k, original))
    /\ last' = [op |-> op, node |-> node, base |-> Len(out),
                errbase |-> Len(err)]
    /\ UNCHANGED use_jinja_autoescape

\* the step of a handler from the return of Writer.body to its own return
Return(op, strings) ==
    /\ out' = out \o strings
    /\ stack' = Pop
    /\ last' = [op |-> "return", h |-> op, node |-> Top.node,
                base |-> Len(out), errbase |-> Len(err)]
    /\ UNCHANGED <<err, use_jinja_autoescape, _filters_warned, budget>>

\* a caller (convert_templates' translate) calls writer.body(nodelist)
body ==
    /\ stack = <<>>
    /\ \E k \in 1..budget :
        /\ stack' = <<Frame("body", [type |-> "Template"], k, FALSE)>>
        /\ budget' = budget - k
    /\ last' = [op |-> "body"]
    /\ UNCHANGED <<out, err, autoescape, spaceless, use_jinja_autoescape,
                   _loop_depth, _filters_warned>>

body_end ==
    /\ AtEnd("body")
    /\ Return("body", <<>>)
    /\ UNCHANGED <<autoescape, spaceless, _loop_depth>>

\* Writer.node on a node whose type has no handler
untranslatable ==
    /\ CanTake
    /\ \E n \in UnregisteredNodes :
        /\ handler_of(Stripped(n)) = None
        /\ Leaf("untranslatable", Stripped(n),
                Warn(Here, Untranslatable(n.type)))

(***************************************************************************)
(* The handlers.                                                           *)
(***************************************************************************)
text_node ==
    /\ CanTake
    /\ \E n \in TextNodes \cup UnregisteredNodes :
        /\ handler_of(Stripped(n)) = "text_node"
        /\ Leaf("text_node", Stripped(n),
                Write(Here, <<Join(Stripped(n).s)>>))

variable_node_writes(w, node) ==
    LET fe == node.filter_expression
        w1 == Write(w, start_variable)
        w2 == IF fe.var.var = n_block_super /\ fe.filters = <<>>
              THEN Write(w1, <<"super()">>)
              ELSE node_expr(w1, fe)
    IN  Write(w2, end_variable(FALSE))

variable_node ==
    /\ CanTake
    /\ \E n \in VariableNodes :
        /\ handler_of(n) = "variable_node"
        /\ Leaf("variable_node", n, variable_node_writes(Here, n))

RECURSIVE cycle_args(_, _, _)
cycle_args(w, vs, idx) ==
    IF idx > Len(vs) THEN w
    ELSE cycle_args(node_expr(IF idx > 1 THEN Write(w, <<", ">>) ELSE w,
                              vs[idx]),
                    vs, idx + 1)

cycle_allowed_anywhere == TRUE
cycle_allowed == in_loop

cycle_writes(w, node) ==
    IF ~cycle_allowed
    THEN Warn(w, "Untranslatable free cycle (cycle outside loop)")
    ELSE
      LET named == node.variable_name # None
          w1 == IF named
                THEN Write(w, start_block
                                \o <<"set " \o node.variable_name \o " = ">>)
                ELSE Write(w, start_variable)
          w2 == cycle_args(Write(w1, <<"loop.cycle(">>),
                           node.raw_cycle_vars, 1)
          w3 == Write(w2, <<")">>)
      IN  IF named THEN Write(w3, end_block)
          ELSE Write(w3, end_variable(FALSE))

cycle ==
    /\ CanTake
    /\ \E n \in CycleNodes :
        /\ handler_of(n) = "cycle"
        /\ Leaf("cycle", n, cycle_writes(Here, n))

RECURSIVE for_loopvars(_, _, _)
for_loopvars(w, loopvars, idx) ==
    IF idx > Len(loopvars) THEN w
    ELSE for_loopvars(Write(IF idx > 1 THEN Write(w, <<", ">>) ELSE w,
                            variable(loopvars[idx])),
                      loopvars, idx + 1)

for_loop_writes(w, node) ==
    LET w1 == for_loopvars(Write(w, start_block \o <<"for ">>),
                           node.loopvars, 1)
        w2 == Write(w1, <<" in ">>
                        \o IF node.is_reversed THEN <<"(">> ELSE <<>>)
        w3 == node_expr(w2, node.sequence)
    IN  Write(w3, (IF node.is_reversed THEN <<")|reverse">> ELSE <<>>)
                  \o end_block)

for_loop ==
    /\ CanTake
    /\ \E k \in 0..budget : \E n \in ForNodes(k) :
        /\ handler_of(n) = "for_loop"
        /\ Enter("for_loop", n, for_loop_writes(Here, n), k, FALSE)
        /\ budget' = budget - k
    /\ _loop_depth' = enter_loop
    /\ UNCHANGED <<autoescape, spaceless>>

for_loop_close_missing == <<>>
for_loop_close == tag("endfor")

for_loop_end ==
    /\ AtEnd("for_loop")
    /\ _loop_depth' = leave_loop
    /\ Return("for_loop", for_loop_close)
    /\ UNCHANGED <<autoescape, spaceless>>

\* Python's truth value of an int
Truthy(x) == x # 0

\* `a and 'or' or 'and'`, with a the constant LinkTypes.or_ of the class
join_with == IF Truthy(LinkTypes.or_) THEN "or" ELSE "and"

RECURSIVE if_bool_exprs(_, _, _)
if_bool_exprs(w, bool_exprs, idx) ==
    IF idx > Len(bool_exprs) THEN w
    ELSE LET w1 == IF idx > 1 THEN Write(w, <<" " \o join_with \o " ">>)
                   ELSE w
             w2 == IF bool_exprs[idx].ifnot THEN Write(w1, <<"not ">>)
                   ELSE w1
         IN  if_bool_exprs(node_expr(w2, bool_exprs[idx].expr),
                           bool_exprs, idx + 1)

if_condition_writes(w, node) ==
    Write(if_bool_exprs(Write(w, start_block \o <<"if ">>),
                        node.bool_exprs, 1),
          end_block)

if_condition ==
    /\ CanTake
    /\ \E kt \in 0..budget : \E kf \in 0..(budget - kt) :
        \E n \in IfNodes(kt, kf) :
          /\ handler_of(n) = "if_condition"
          /\ Enter("if_condition", n, if_condition_writes(Here, n), kt, FALSE)
          /\ budget' = budget - (kt + kf)
    /\ UNCHANGED <<autoescape, spaceless, _loop_depth>>

\* the step from the end of nodelist_true to the body() call on nodelist_false
Else(h) ==
    /\ AtEnd(h)
    /\ ~Top.else_done
    /\ Top.node.nodelist_false > 0
    /\ out' = out \o tag("else")
    /\ stack' = [stack EXCEPT ![Len(stack)].n = Top.node.nodelist_false,
                              ![Len(stack)].left = Top.node.nodelist_false,
                              ![Len(stack)].else_done = TRUE]
    /\ last' = [op |-> "else", h |-> h, node |-> Top.node,
                base |-> Len(out), errbase |-> Len(err)]
    /\ UNCHANGED <<err, autoescape, spaceless, use_jinja_autoescape,
                   _loop_depth, _filters_warned, budget>>

EndIf(h) ==
    /\ AtEnd(h)
    /\ Top.else_done \/ Top.node.nodelist_false = 0
    /\ Return(h, tag("endif"))
    /\ UNCHANGED <<autoescape, spaceless, _loop_depth>>

if_condition_else == Else("if_condition")

if_condition_end == EndIf("if_condition")

if_equal_writes(w, node) ==
    LET w1 == node_expr(Write(w, start_block \o <<"if ">>), node.var1)
        w2 == node_expr(Write(w1, <<" == ">>), node.var2)
    IN  Write(w2, end_block)

if_equal ==
    /\ CanTake
    /\ \E kt \in 0..budget : \E kf \in 0..(budget - kt) :
        \E n \in IfEqualNodes(kt, kf) :
          /\ handler_of(n) = "if_equal"
          /\ Enter("if_equal", n, if_equal_writes(Here, n), kt, FALSE)
          /\ budget' = budget - (kt + kf)
    /\ UNCHANGED <<autoescape, spaceless, _loop_depth>>

if_equal_else == Else("if_equal")

if_equal_end == EndIf("if_equal")

\* `while node.parent is not None: node = node.parent`
RECURSIVE RootBlock(_)
RootBlock(node) ==
    IF node.parent = <<>> THEN node ELSE RootBlock(node.parent[1])

block_open(node) == tag("block " \o Join(Replace(node.name, "-", "_")))

block ==
    /\ CanTake
    /\ \E k \in 0..budget : \E n \in BlockNodes(k) :
        /\ handler_of(n) = "block"
        /\ Enter("block", n, Write(Here, block_open(n)),
                 RootBlock(n).nodelist, FALSE)
        /\ budget' = budget - k
    /\ UNCHANGED <<autoescape, spaceless, _loop_depth>>

block_end ==
    /\ AtEnd("block")
    /\ Return("block", tag("endblock"))
    /\ UNCHANGED <<autoescape, spaceless, _loop_depth>>

filter_writes(w, node) ==
    Write(filters(Write(w, start_block \o <<"filter ">>),
                  node.filter_expr.filters, TRUE),
          end_block)

filter ==
    /\ CanTake
    /\ \E k \in 0..budget : \E n \in FilterNodes(k) :
        /\ handler_of(n) = "filter"
        /\ Enter("filter", n, filter_writes(Here, n), k, FALSE)
        /\ budget' = budget - k
    /\ UNCHANGED <<autoescape, spaceless, _loop_depth>>

filter_end ==
    /\ AtEnd("filter")
    /\ Return("filter", tag("endfilter"))
    /\ UNCHANGED <<autoescape, spaceless, _loop_depth>>

autoescape_control ==
    /\ CanTake
    /\ \E k \in 0..budget : \E n \in AutoEscapeControlNodes(k) :
        /\ handler_of(n) = "autoescape_control"
        /\ Enter("autoescape_control", n, Here, k, autoescape)
        /\ autoescape' = n.setting
        /\ budget' = budget - k
    /\ UNCHANGED <<spaceless, _loop_depth>>

autoescape_left_as_is == autoescape
autoescape_restored == Top.original

autoescape_control_end ==
    /\ AtEnd("autoescape_control")
    /\ autoescape' = autoescape_restored
    /\ Return("autoescape_control", <<>>)
    /\ UNCHANGED <<spaceless, _loop_depth>>

spaceless_tag ==
    /\ CanTake
    /\ \E k \in 0..budget : \E n \in SpacelessNodes(k) :
        /\ handler_of(n) = "spaceless"
        /\ Enter("spaceless", n,
                 Warn(Here,
                      "entering spaceless mode with different semantics"),
                 k, spaceless)
        /\ budget' = budget - k
    /\ spaceless' = TRUE
    /\ UNCHANGED <<autoescape, _loop_depth>>

spaceless_end ==
    /\ AtEnd("spaceless")
    /\ spaceless' = Top.original
    /\ Return("spaceless", <<>>)
    /\ UNCHANGED <<autoescape, _loop_depth>>

(***************************************************************************)
(* Spec: Writer() with the default settings, on which callers call body()  *)
(* with templates of at most MaxNodes nodes in all.                        *)
(***************************************************************************)
Init == InitWriter(TRUE, FALSE) /\ budget = MaxNodes

Next ==
    \/ body
    \/ body_end
    \/ untranslatable
    \/ text_node
    \/ variable_node
    \/ cycle
    \/ for_loop
    \/ for_loop_end
    \/ if_condition
    \/ if_condition_else
    \/ if_condition_end
    \/ if_equal
    \/ if_equal_else
    \/ if_equal_end
    \/ block
    \/ block_end
    \/ filter
    \/ filter_end
    \/ autoescape_control
    \/ autoescape_control_end
    \/ spaceless_tag
    \/ spaceless_end

Spec == Init /\ [][Next]_vars

(***************************************************************************)
(* Properties of the Writer's primitives.                                  *)
(***************************************************************************)
Count(seq, x) == Cardinality({i \in DOMAIN seq : seq[i] = x})

\* what the last step wrote to the output, when it recorded where it began
Written == SubSeq(out, last.base + 1, Len(out))

IsLoopMetadata(name) ==
    name = n_forloop \/ StartsWith(name, n_forloop \o <<".">>)

\* C1: variable(name) writes a loop-metadata name ('forloop' or 'forloop.x')
\* without its first 3 characters when the loop depth is positive and
\* unchanged when it is 0; it writes every other name unchanged.
C1_PrefixStrippedOnlyInLoop ==
    last.op = "variable" =>
        out[Len(out)] =
            Join(IF IsLoopMetadata(last.name) /\ _loop_depth > 0
                 THEN SliceFrom(last.name, 3)
                 ELSE last.name)

EscapeMarkerWritten ==
    /\ Len(out) >= 3
    /\ out[Len(out) - 2] = "|e"

\* C6: end_variable(always_safe) writes '|e' before the closing padding and
\* the variable delimiter exactly when autoescape is on, use_jinja_autoescape
\* is off and always_safe is false.
C6_EscapeMarkerIff ==
    last.op = "end_variable" =>
        /\ Len(out) >= 2
        /\ out[Len(out)] = VARIABLE_END_STRING
        /\ out[Len(out) - 1] \in {" ", " -"}
        /\ EscapeMarkerWritten <=>
              (autoescape /\ ~use_jinja_autoescape /\ ~last.always_safe)

C6_Witness ==
    /\ last.op = "end_variable"
    /\ autoescape /\ ~use_jinja_autoescape /\ ~last.always_safe
    /\ EscapeMarkerWritten

FilterNames == {l[1] : l \in Libraries}

\* the names of the filters of a list that resolve, in order
RECURSIVE ResolvedNames(_)
ResolvedNames(fl) ==
    IF fl = <<>> THEN <<>>
    ELSE (IF get_filter_name(Head(fl).filter) = None THEN <<>>
          ELSE <<get_filter_name(Head(fl).filter)>>)
         \o ResolvedNames(Tail(fl))

\* the filter names among the strings of seg, in order, and where they are
RECURSIVE NamesIn(_)
NamesIn(seg) ==
    IF seg = <<>> THEN <<>>
    ELSE (IF Head(seg) \in FilterNames THEN <<Head(seg)>> ELSE <<>>)
         \o NamesIn(Tail(seg))

NamePositions(seg) == {i \in DOMAIN seg : seg[i] \in FilterNames}

PrecededByPipe(seg, p) == p > 1 /\ seg[p - 1] = "|"

\* C3 as stated: in block form the filters written are separated by spaces and
\* no pipe is written; in non-block form every filter written is preceded by
\* a pipe.
C3_BlockFormSpaceSeparated ==
    last.op = "filters" =>
        IF last.is_block
        THEN /\ \A i \in DOMAIN Written : Written[i] # "|"
             /\ \A p \in NamePositions(Written) :
                    p > 1 => Written[p - 1] = " "
        ELSE \A p \in NamePositions(Written) : PrecededByPipe(Written, p)

\* C3 amended: filters() writes the filters that resolve, in order; in block
\* form the first of them is the first string written, with no pipe before
\* it, and every later one is preceded by a pipe; in non-block form every one
\* is preceded by a pipe.
C3_BlockFormFirstWithoutPipe ==
    last.op = "filters" =>
        /\ NamesIn(Written) = ResolvedNames(last.filters)
        /\ \A p \in NamePositions(Written) :
              IF last.is_block /\ \A q \in NamePositions(Written) : p <= q
              THEN p = 1
              ELSE PrecededByPipe(Written, p)

C3_Witness ==
    /\ last.op = "filters"
    /\ last.is_block
    /\ Cardinality(NamePositions(Written)) >= 2
    /\ Len(ResolvedNames(last.filters)) < Len(last.filters)

ProbablyMissing(name) == "Filter " \o name \o " probably doesn't exist in Jinja"

\* C9: over the life of a Writer the 'probably doesn't exist' warning of a
\* filter name that resolves and is not in DEFAULT_FILTERS has been written
\* exactly once if that filter has been translated and never otherwise, and
\* every filters() call writes the name once per use of the filter.
C9_WarnedOncePerName ==
    /\ \A name \in FilterNames \ DEFAULT_FILTERS :
          Count(err, ProbablyMissing(name)) =
              IF Count(out, name) > 0 THEN 1 ELSE 0
    /\ \A name \in FilterNames \ DEFAULT_FILTERS :
          name \in _filters_warned <=> Count(out, name) > 0
    /\ last.op = "filters" =>
          \A name \in FilterNames :
              Count(Written, name) = Count(ResolvedNames(last.filters), name)

C9_Witness ==
    /\ last.op = "filters"
    /\ \E name \in FilterNames \ DEFAULT_FILTERS :
          /\ Count(SubSeq(out, 1, last.base), name) >= 1
          /\ Count(Written, name) >= 2
          /\ Count(err, ProbablyMissing(name)) = 1

(***************************************************************************)
(* Properties of the translation of a template.                            *)
(***************************************************************************)
\* C2: an if-node with several conditions joins them with the connective of
\* its own link type, ' and ' for an and-linked node and ' or ' for an
\* or-linked one, and writes 'not ' before each negated condition.
C2_JoinedPerLinkType ==
    last.op = "if_condition" =>
        LET exprs == last.node.bool_exprs
            own == IF last.node.link_type = LinkTypes.and_
                   THEN " and " ELSE " or "
            other == IF last.node.link_type = LinkTypes.and_
                     THEN " or " ELSE " and "
        IN  /\ Count(Written, own) = Len(exprs) - 1
            /\ Count(Written, other) = 0
            /\ Count(Written, "not ") =
                  Cardinality({i \in DOMAIN exprs : exprs[i].ifnot})

\* the steps in which Writer.node is invoked on a node of a body
NodeOps ==
    {"untranslatable", "text_node", "variable_node", "cycle", "for_loop",
     "if_condition", "if_equal", "block", "filter", "autoescape_control",
     "spaceless"}

\* a handler that called Writer.body returns in this step
HandlerReturns == Len(stack') < Len(stack)

\* Writer.node is invoked and returns within this step
NodeDone == Len(stack') = Len(stack) /\ last'.op \in NodeOps

\* C4: the loop depth is never negative, it is 0 when no body() call is
\* active, and when the handler of a node returns it is what it was when the
\* handler was entered.
C4_LoopDepthRestored ==
    /\ [](_loop_depth >= 0 /\ (stack = <<>> => _loop_depth = 0))
    /\ [][/\ HandlerReturns => _loop_depth' = Top.entry.depth
          /\ NodeDone => _loop_depth' = _loop_depth]_vars

C4_Witness ==
    /\ last.op = "return"
    /\ last.h = "for_loop"
    /\ _loop_depth = 1
    /\ Top.h = "for_loop"

AutoescapeFrames == {i \in DOMAIN stack : stack[i].h = "autoescape_control"}

Innermost == CHOOSE i \in AutoescapeFrames : \A j \in AutoescapeFrames : j <= i

\* C5: while the body of an autoescape node is translated autoescape is the
\* setting of the innermost enclosing autoescape node, outside any it is
\* what it was when body() was called, and when the handler of a node
\* returns autoescape and spaceless are what they were when it was entered.
C5_FlagsRestored ==
    /\ [](stack # <<>> =>
            autoescape = IF AutoescapeFrames = {}
                         THEN stack[1].entry.autoescape
                         ELSE stack[Innermost].node.setting)
    /\ [][/\ HandlerReturns =>
                /\ autoescape' = Top.entry.autoescape
                /\ spaceless' = Top.entry.spaceless
          /\ NodeDone =>
                /\ autoescape' = autoescape
                /\ spaceless' = spaceless]_vars

C5_Witness ==
    /\ last.op = "return"
    /\ last.h = "autoescape_control"
    /\ AutoescapeFrames # {}
    /\ stack[Innermost].node.setting # last.node.setting
    /\ autoescape = stack[Innermost].node.setting
    /\ \E i \in DOMAIN stack : stack[i].h = "spaceless"

RegisteredTypes == {h[1] : h \in node_handlers}

\* C7: Writer.node on a node whose exact type has no handler writes one
\* warning and nothing to the output, changes nothing else, and leaves
\* body() at the next node of the sequence; the walk is never stuck.
C7_UnregisteredWarnsOnce ==
    /\ [](stack # <<>> => ENABLED Next)
    /\ [][(last'.op \in NodeOps /\ last'.node.type \notin RegisteredTypes) =>
            /\ err' = err \o <<Untranslatable(last'.node.type)>>
            /\ out' = out
            /\ stack' = Taken
            /\ UNCHANGED <<autoescape, spaceless, _loop_depth,
                           _filters_warned>>]_vars

C7_Witness ==
    /\ last.op = "untranslatable"
    /\ last.node.type = "blog.ShoutTextNode"
    /\ Len(err) = last.errbase + 1
    /\ Top.left > 0

\* the string a Variable is written as
ArgString(v) ==
    IF v.literal # PyNone THEN literal(v.literal)[1] ELSE variable(v.var)[1]

Position(seq, x) == CHOOSE i \in DOMAIN seq : seq[i] = x

NotComma(x) == x # ", "

\* C8: a cycle node translated at loop depth 0 writes one warning and
\* nothing to the output; at a positive loop depth it writes no warning and
\* a 'loop.cycle(' call with the raw cycle variables in order, inside a
\* 'set NAME = ' block when it has a variable name and inside variable
\* delimiters otherwise.
C8_CycleOnlyInLoop ==
    last.op = "cycle" =>
        IF _loop_depth = 0
        THEN /\ Written = <<>>
             /\ SubSeq(err, last.errbase + 1, Len(err)) =
                    <<"Untranslatable free cycle (cycle outside loop)">>
        ELSE LET named == last.node.variable_name # None
                 vs == last.node.raw_cycle_vars
                 call == Position(Written, "loop.cycle(")
                 close == Position(Written, ")")
             IN  /\ Len(err) = last.errbase
                 /\ Count(Written, "loop.cycle(") = 1
                 /\ Count(Written, ")") = 1
                 /\ SelectSeq(SubSeq(Written, call + 1, close - 1), NotComma)
                        = [i \in DOMAIN vs |-> ArgString(vs[i])]
                 /\ IF named
                    THEN /\ SubSeq(Written, 1, call - 1) =
                              start_block
                                \o <<"set " \o last.node.variable_name
                                       \o " = ">>
                         /\ SubSeq(Written, close + 1, Len(Written)) =
                              end_block
                    ELSE /\ SubSeq(Written, 1, call - 1) = start_variable
                         /\ Written[Len(Written)] = VARIABLE_END_STRING

C8_Witness ==
    /\ last.op = "cycle"
    /\ _loop_depth > 0
    /\ last.node.variable_name # None
    /\ Count(Written, "loop.cycle(") = 1

BlockOpenWords == {"block " \o Join(Replace(n_side_bar, "-", "_"))}

Opens ==
    [w \in {"for ", "if ", "filter "} \cup BlockOpenWords |->
        CASE w = "for " -> "for"
          [] w = "if " -> "if"
          [] w = "filter " -> "filter"
          [] OTHER -> "block"]

Closes ==
    [w \in {"endfor", "endif", "endfilter", "endblock"} |->
        CASE w = "endfor" -> {"for"}
          [] w = "endif" -> {"if", "ifelse"}
          [] w = "endfilter" -> {"filter"}
          [] OTHER -> {"block"}]

Malformed == <<"malformed">>

\* the block tags of `out` from position i on, read against the blocks that
\* are open: what is still open at the end, or Malformed
RECURSIVE Nesting(_, _)
Nesting(i, open) ==
    IF i > Len(out) THEN open
    ELSE IF out[i] # BLOCK_START_STRING \/ i + 2 > Len(out)
    THEN Nesting(i + 1, open)
    ELSE
      LET w == out[i + 2]
          inner == IF open = <<>> THEN "none" ELSE open[Len(open)]
          rest == SubSeq(open, 1, Len(open) - 1)
      IN  CASE w \in DOMAIN Opens -> Nesting(i + 3, Append(open, Opens[w]))
            [] w \in DOMAIN Closes ->
                 IF inner \in Closes[w] THEN Nesting(i + 3, rest)
                 ELSE Malformed
            [] w = "else" ->
                 IF inner = "if" THEN Nesting(i + 3, Append(rest, "ifelse"))
                 ELSE Malformed
            [] OTHER -> Nesting(i + 3, open)

\* the blocks that the handlers inside a body() call have opened
RECURSIVE OpenBlocks(_)
OpenBlocks(frames) ==
    IF frames = <<>> THEN <<>>
    ELSE LET f == frames[Len(frames)]
             mine == CASE f.h = "for_loop" -> <<"for">>
                       [] f.h \in {"if_condition", "if_equal"} ->
                            IF f.else_done THEN <<"ifelse">> ELSE <<"if">>
                       [] f.h = "filter" -> <<"filter">>
                       [] f.h = "block" -> <<"block">>
                       [] OTHER -> <<>>
         IN  OpenBlocks(SubSeq(frames, 1, Len(frames) - 1)) \o mine

\* C10: the block tags written are well nested: at every point the tags
\* opened and not yet closed are those of the for, if, if-equal, filter and
\* block nodes being translated, innermost last, an 'else' is written only
\* directly inside an open if, and every tag is closed when body() returns.
C10_BlockTagsWellNested ==
    /\ Nesting(1, <<>>) = OpenBlocks(stack)
    /\ stack = <<>> => Nesting(1, <<>>) = <<>>

C10_Witness ==
    /\ stack = <<>>
    /\ Count(out, "else") = 1
    /\ Count(out, "for ") = 1
    /\ Count(out, "endif") = 1
    /\ Position(out, "for ") < Position(out, "if ")
    /\ Position(out, "endif") < Position(out, "endfor")

====
